---------------------------- MODULE Spec2Model ----------------------------
(***************************************************************************)
(* Model of board/hx30/peci_customization.c: the PECI sampling throttle    *)
(* (stop_read_peci_temp), the temperature-read entry point with its retry  *)
(* loop, the Get-Temperature conversion, the Write-Package-Config frame    *)
(* builder with its transport routing, and the four power-limit setters.   *)
(***************************************************************************)
EXTENDS Integers, Sequences, FiniteSets

(***************************************************************************)
(* Bounds of the model.                                                    *)
(***************************************************************************)
\* Clock ticks per second.  The source counts microseconds (SECOND is
\* 1000000 there); the throttle only compares differences with 7 * SECOND,
\* so the model counts a coarser tick.
SECOND == 1
\* The clock stops advancing at this tick.
MaxTime == 16

(***************************************************************************)
(* Program constants.                                                      *)
(***************************************************************************)
EC_SUCCESS == "EC_SUCCESS"
EC_ERROR_INVAL == "EC_ERROR_INVAL"
EC_ERROR_TIMEOUT == "EC_ERROR_TIMEOUT"
EC_ERROR_NOT_POWERED == "EC_ERROR_NOT_POWERED"
\* Any other failure a bus transaction may report.
EC_ERROR_UNKNOWN == "EC_ERROR_UNKNOWN"

\* Maximum junction temperature of the board, degrees C.
CONFIG_PECI_TJMAX == 100
\* First board revision whose PECI goes over the eSPI out-of-band channel.
BOARD_VERSION_7 == 7
\* Write length of a double-word Write-Package-Config; also the size of out[].
PECI_WR_PKG_CONFIG_WRITE_LENGTH_DWORD == 10

\* The chipset power states and the masks chipset_in_state is asked about.
ChipsetStates == {"HARD_OFF", "SOFT_OFF", "SUSPEND", "ON", "STANDBY"}
CHIPSET_STATE_ON == {"ON"}
CHIPSET_STATE_STANDBY == {"STANDBY"}
CHIPSET_STATE_ANY_OFF == {"HARD_OFF", "SOFT_OFF"}

\* chipset_in_state(mask): whether the current power state is one of the mask.
chipset_in_state(pw, mask) == pw \in mask

\* What a bus transaction (peci_transaction, espi_oob_peci_transaction) returns.
TxResults == {EC_SUCCESS, EC_ERROR_TIMEOUT, EC_ERROR_UNKNOWN}

(***************************************************************************)
(* Integer helpers: C's bit operations on non-negative ints.               *)
(***************************************************************************)
RECURSIVE Pow2(_)
Pow2(n) == IF n = 0 THEN 1 ELSE 2 * Pow2(n - 1)

\* a ^ b on the low `bits` bits, bit by bit (no bits are left to differ
\* once both operands are 0).
RECURSIVE BitXor(_, _, _)
BitXor(a, b, bits) ==
    IF bits = 0 \/ (a = 0 /\ b = 0) THEN 0
    ELSE (IF (a % 2) # (b % 2) THEN 1 ELSE 0)
         + 2 * BitXor(a \div 2, b \div 2, bits - 1)

\* a >> n for a non-negative int.
ShiftRight(a, n) == a \div Pow2(n)

\* Stand-in for the 2^64 modulus of uint64_t arithmetic: as far above MaxTime
\* as 2^64 microseconds is above any uptime.
U64Modulus == Pow2(30)

\* tnow - t in uint64_t.
U64Sub(a, b) == (a - b) % U64Modulus

(***************************************************************************)
(* State.                                                                  *)
(***************************************************************************)
VARIABLES
    now,          \* get_time().val, in ticks
    power,        \* the chipset power state
    t,            \* stop_read_peci_temp: static uint64_t t
    read_count,   \* stop_read_peci_temp: static int read_count
    pc,           \* "idle", or "loop" inside peci_over_espi_temp_sensor_get_val
    i,            \* the loop index of peci_over_espi_temp_sensor_get_val
    temp,         \* *temp_ptr / *cpu_temp of the caller
    rvs,          \* the return values of the Get-Temperature attempts of the call
    nOob,         \* espi_oob_peci_transaction calls made by the last/current call
    nRetry,       \* espi_oob_retry_receive_date calls made by the last/current call
    nHw,          \* peci_transaction calls made by the last/current call
    lastCall,     \* the entry point that returned last
    rv,           \* what it returned
    callPower,    \* the power state it saw
    thr,          \* what the throttle answered in the last call that asked it
    run,          \* Standby calls accepted in a row by the throttle
    runBefore,    \* run, before the last throttle call
    accepted,     \* the times of the last four calls accepted in Standby
    args,         \* the arguments of the last call
    out           \* peci_Wr_Pkg_Config: the outbound buffer handed to the transport

vars == <<now, power, t, read_count, pc, i, temp, rvs, nOob, nRetry, nHw,
          lastCall, rv, callPower, thr, run, runBefore, accepted, args, out>>

envVars == <<now, power>>
thrVars == <<t, read_count, run, runBefore, accepted>>
loopVars == <<pc, i, temp, rvs>>
wrVars == <<args, out>>

NoArgs == [op |-> "none"]

(***************************************************************************)
(* stop_read_peci_temp, lines 206-236.  The result is the return value and *)
(* the new values of the two statics.                                      *)
(***************************************************************************)
\* Variants of stop_read_peci_temp, each with one slip.
\* read_count++ > 3 in place of ++read_count > 3.
stop_read_post_increment(pw, tnow, t0, rc0) ==
    IF chipset_in_state(pw, CHIPSET_STATE_ANY_OFF)
    THEN [rv |-> EC_ERROR_NOT_POWERED, t |-> t0, read_count |-> rc0]
    ELSE IF chipset_in_state(pw, CHIPSET_STATE_STANDBY)
    THEN IF U64Sub(tnow, t0) < 7 * SECOND
         THEN [rv |-> EC_ERROR_NOT_POWERED, t |-> t0, read_count |-> rc0]
         ELSE IF rc0 > 3
              THEN [rv |-> EC_ERROR_NOT_POWERED, t |-> tnow, read_count |-> 0]
              ELSE [rv |-> EC_SUCCESS, t |-> t0, read_count |-> rc0 + 1]
    ELSE [rv |-> EC_SUCCESS, t |-> tnow, read_count |-> 0]

\* tnow - t <= 7 * SECOND in place of <.
stop_read_window_le(pw, tnow, t0, rc0) ==
    IF chipset_in_state(pw, CHIPSET_STATE_ANY_OFF)
    THEN [rv |-> EC_ERROR_NOT_POWERED, t |-> t0, read_count |-> rc0]
    ELSE IF chipset_in_state(pw, CHIPSET_STATE_STANDBY)
    THEN IF U64Sub(tnow, t0) <= 7 * SECOND
         THEN [rv |-> EC_ERROR_NOT_POWERED, t |-> t0, read_count |-> rc0]
         ELSE IF rc0 + 1 > 3
              THEN [rv |-> EC_ERROR_NOT_POWERED, t |-> tnow, read_count |-> 0]
              ELSE [rv |-> EC_SUCCESS, t |-> t0, read_count |-> rc0 + 1]
    ELSE [rv |-> EC_SUCCESS, t |-> tnow, read_count |-> 0]

\* The last branch forgets read_count = 0.
stop_read_on_keeps_count(pw, tnow, t0, rc0) ==
    IF chipset_in_state(pw, CHIPSET_STATE_ANY_OFF)
    THEN [rv |-> EC_ERROR_NOT_POWERED, t |-> t0, read_count |-> rc0]
    ELSE IF chipset_in_state(pw, CHIPSET_STATE_STANDBY)
    THEN IF U64Sub(tnow, t0) < 7 * SECOND
         THEN [rv |-> EC_ERROR_NOT_POWERED, t |-> t0, read_count |-> rc0]
         ELSE IF rc0 + 1 > 3
              THEN [rv |-> EC_ERROR_NOT_POWERED, t |-> tnow, read_count |-> 0]
              ELSE [rv |-> EC_SUCCESS, t |-> t0, read_count |-> rc0 + 1]
    ELSE [rv |-> EC_SUCCESS, t |-> tnow, read_count |-> rc0]

\* The first test asks for the hard-off state only.
stop_read_hard_off_only(pw, tnow, t0, rc0) ==
    IF chipset_in_state(pw, {"HARD_OFF"})
    THEN [rv |-> EC_ERROR_NOT_POWERED, t |-> t0, read_count |-> rc0]
    ELSE IF chipset_in_state(pw, CHIPSET_STATE_STANDBY)
    THEN IF U64Sub(tnow, t0) < 7 * SECOND
         THEN [rv |-> EC_ERROR_NOT_POWERED, t |-> t0, read_count |-> rc0]
         ELSE IF rc0 + 1 > 3
              THEN [rv |-> EC_ERROR_NOT_POWERED, t |-> tnow, read_count |-> 0]
              ELSE [rv |-> EC_SUCCESS, t |-> t0, read_count |-> rc0 + 1]
    ELSE [rv |-> EC_SUCCESS, t |-> tnow, read_count |-> 0]

\* tnow < 7 * SECOND in place of tnow - t < 7 * SECOND.
stop_read_forgets_window_start(pw, tnow, t0, rc0) ==
    IF chipset_in_state(pw, CHIPSET_STATE_ANY_OFF)
    THEN [rv |-> EC_ERROR_NOT_POWERED, t |-> t0, read_count |-> rc0]
    ELSE IF chipset_in_state(pw, CHIPSET_STATE_STANDBY)
    THEN IF tnow < 7 * SECOND
         THEN [rv |-> EC_ERROR_NOT_POWERED, t |-> t0, read_count |-> rc0]
         ELSE IF rc0 + 1 > 3
              THEN [rv |-> EC_ERROR_NOT_POWERED, t |-> tnow, read_count |-> 0]
              ELSE [rv |-> EC_SUCCESS, t |-> t0, read_count |-> rc0 + 1]
    ELSE [rv |-> EC_SUCCESS, t |-> tnow, read_count |-> 0]

\* The off branch resets the statics like the last one.
stop_read_off_resets(pw, tnow, t0, rc0) ==
    IF chipset_in_state(pw, CHIPSET_STATE_ANY_OFF)
    THEN [rv |-> EC_ERROR_NOT_POWERED, t |-> tnow, read_count |-> 0]
    ELSE IF chipset_in_state(pw, CHIPSET_STATE_STANDBY)
    THEN IF U64Sub(tnow, t0) < 7 * SECOND
         THEN [rv |-> EC_ERROR_NOT_POWERED, t |-> t0, read_count |-> rc0]
         ELSE IF rc0 + 1 > 3
              THEN [rv |-> EC_ERROR_NOT_POWERED, t |-> tnow, read_count |-> 0]
              ELSE [rv |-> EC_SUCCESS, t |-> t0, read_count |-> rc0 + 1]
    ELSE [rv |-> EC_SUCCESS, t |-> tnow, read_count |-> 0]

\* The last branch forgets t = tnow.
stop_read_on_keeps_window(pw, tnow, t0, rc0) ==
    IF chipset_in_state(pw, CHIPSET_STATE_ANY_OFF)
    THEN [rv |-> EC_ERROR_NOT_POWERED, t |-> t0, read_count |-> rc0]
    ELSE IF chipset_in_state(pw, CHIPSET_STATE_STANDBY)
    THEN IF U64Sub(tnow, t0) < 7 * SECOND
         THEN [rv |-> EC_ERROR_NOT_POWERED, t |-> t0, read_count |-> rc0]
         ELSE IF rc0 + 1 > 3
              THEN [rv |-> EC_ERROR_NOT_POWERED, t |-> tnow, read_count |-> 0]
              ELSE [rv |-> EC_SUCCESS, t |-> t0, read_count |-> rc0 + 1]
    ELSE [rv |-> EC_SUCCESS, t |-> t0, read_count |-> 0]

\* The rejection past the third read forgets read_count = 0.
stop_read_reject_keeps_count(pw, tnow, t0, rc0) ==
    IF chipset_in_state(pw, CHIPSET_STATE_ANY_OFF)
    THEN [rv |-> EC_ERROR_NOT_POWERED, t |-> t0, read_count |-> rc0]
    ELSE IF chipset_in_state(pw, CHIPSET_STATE_STANDBY)
    THEN IF U64Sub(tnow, t0) < 7 * SECOND
         THEN [rv |-> EC_ERROR_NOT_POWERED, t |-> t0, read_count |-> rc0]
         ELSE IF rc0 + 1 > 3
              THEN [rv |-> EC_ERROR_NOT_POWERED, t |-> tnow, read_count |-> rc0 + 1]
              ELSE [rv |-> EC_SUCCESS, t |-> t0, read_count |-> rc0 + 1]
    ELSE [rv |-> EC_SUCCESS, t |-> tnow, read_count |-> 0]

\* The rejection inside the window sets t = tnow too.
stop_read_reject_rearms(pw, tnow, t0, rc0) ==
    IF chipset_in_state(pw, CHIPSET_STATE_ANY_OFF)
    THEN [rv |-> EC_ERROR_NOT_POWERED, t |-> t0, read_count |-> rc0]
    ELSE IF chipset_in_state(pw, CHIPSET_STATE_STANDBY)
    THEN IF U64Sub(tnow, t0) < 7 * SECOND
         THEN [rv |-> EC_ERROR_NOT_POWERED, t |-> tnow, read_count |-> rc0]
         ELSE IF rc0 + 1 > 3
              THEN [rv |-> EC_ERROR_NOT_POWERED, t |-> tnow, read_count |-> 0]
              ELSE [rv |-> EC_SUCCESS, t |-> t0, read_count |-> rc0 + 1]
    ELSE [rv |-> EC_SUCCESS, t |-> tnow, read_count |-> 0]

stop_read_peci_temp(pw, tnow, t0, rc0) ==
    IF chipset_in_state(pw, CHIPSET_STATE_ANY_OFF)
    THEN [rv |-> EC_ERROR_NOT_POWERED, t |-> t0, read_count |-> rc0]
    ELSE IF chipset_in_state(pw, CHIPSET_STATE_STANDBY)
    THEN IF U64Sub(tnow, t0) < 7 * SECOND
         THEN [rv |-> EC_ERROR_NOT_POWERED, t |-> t0, read_count |-> rc0]
         ELSE IF rc0 + 1 > 3
              THEN [rv |-> EC_ERROR_NOT_POWERED, t |-> tnow, read_count |-> 0]
              ELSE [rv |-> EC_SUCCESS, t |-> t0, read_count |-> rc0 + 1]
    ELSE [rv |-> EC_SUCCESS, t |-> tnow, read_count |-> 0]

\* Length of the run of accepted Standby calls after a throttle call that saw
\* power state pw and returned r: a call in an off state is not counted, a
\* rejected Standby call or a call in any other state ends the run.
MaxRun == 4
NextRun(pw, r, n) ==
    IF pw \in CHIPSET_STATE_ANY_OFF THEN n
    ELSE IF pw \in CHIPSET_STATE_STANDBY /\ r = EC_SUCCESS
         THEN (IF n < MaxRun THEN n + 1 ELSE n)
         ELSE 0

\* The times of the last four Standby calls accepted, after a throttle call
\* made at tnow that saw power state pw and returned r.
NextAccepted(pw, r, tnow, acc) ==
    IF pw \in CHIPSET_STATE_STANDBY /\ r = EC_SUCCESS
    THEN (IF Len(acc) < 4 THEN Append(acc, tnow) ELSE Append(Tail(acc), tnow))
    ELSE acc

(***************************************************************************)
(* peci_over_espi_get_cpu_temp, lines 83-122.  tx is what the transaction  *)
(* returned and raw the 16-bit value it left in r_buf; temp0 is *cpu_temp  *)
(* on entry.  retry tells whether espi_oob_retry_receive_date was called.  *)
(***************************************************************************)
\* The + 1 of the two's-complement negation is missing.
RawToOffset_no_increment(raw) == ShiftRight(BitXor(raw, 65535, 32), 6)

\* Lines 110-113: the relative offset of a raw reading.
RawToOffset(raw) == ShiftRight(BitXor(raw, 65535, 32) + 1, 6)

\* The salvage read counts as the transaction's success: after a timeout the
\* bytes recovered into r_buf are converted.
get_cpu_temp_salvage_recovers(tx, raw, temp0) ==
    IF tx # EC_SUCCESS /\ tx # EC_ERROR_TIMEOUT
    THEN [rv |-> tx, cpu_temp |-> temp0, retry |-> FALSE]
    ELSE IF RawToOffset(raw) >= CONFIG_PECI_TJMAX
    THEN [rv |-> EC_ERROR_INVAL, cpu_temp |-> RawToOffset(raw),
          retry |-> (tx = EC_ERROR_TIMEOUT)]
    ELSE [rv |-> EC_SUCCESS,
          cpu_temp |-> CONFIG_PECI_TJMAX - RawToOffset(raw) + 273,
          retry |-> (tx = EC_ERROR_TIMEOUT)]

peci_over_espi_get_cpu_temp(tx, raw, temp0) ==
    IF tx # EC_SUCCESS
    THEN [rv |-> tx, cpu_temp |-> temp0, retry |-> (tx = EC_ERROR_TIMEOUT)]
    ELSE IF RawToOffset(raw) >= CONFIG_PECI_TJMAX
    THEN [rv |-> EC_ERROR_INVAL, cpu_temp |-> RawToOffset(raw), retry |-> FALSE]
    ELSE [rv |-> EC_SUCCESS,
          cpu_temp |-> CONFIG_PECI_TJMAX - RawToOffset(raw) + 273,
          retry |-> FALSE]

\* Raw readings the transactions of the main specification return: the two
\* around the validity ceiling, with offsets Tjmax and Tjmax - 1.
RawSamples == {59136, 59137}

(***************************************************************************)
(* peci_Wr_Pkg_Config, lines 47-81.                                        *)
(***************************************************************************)
\* What data >> s yields when s >= 32, which C leaves undefined for a
\* uint32_t: 0 where the shifter saturates, data >> (s % 32) where it masks
\* the count.
ShiftUB == {"zero", "masked"}

\* data >> s for a uint32_t.
ShiftRightU32(data, s, ub) ==
    IF s < 32 THEN ShiftRight(data, s)
    ELSE IF ub = "zero" THEN 0 ELSE ShiftRight(data, s % 32)

\* Lines 52, 64-70: out[] as handed to the transport, indexed as in C.
WrFrame(index, parameter, data, wlen, ub) ==
    [k \in 0..(PECI_WR_PKG_CONFIG_WRITE_LENGTH_DWORD - 1) |->
        IF k = 0 THEN 0
        ELSE IF k = 1 THEN index
        ELSE IF k = 2 THEN parameter % 256
        ELSE IF k = 3 THEN ShiftRight(parameter, 8) % 256
        ELSE IF k < wlen - 1 THEN ShiftRightU32(data, (k - 4) * 8, ub) % 256
        ELSE 0]

\* Line 72, with > in place of >=.
uses_oob_after_version_7(ver) == ver > BOARD_VERSION_7

\* Line 72: whether the out-of-band transport is taken.
uses_oob(ver) == ver >= BOARD_VERSION_7

\* The out-of-band branch checks its transaction like the other one.
peci_Wr_Pkg_Config_checks_oob(index, parameter, data, wlen, ver, tx, ub) ==
    [out |-> WrFrame(index, parameter, data, wlen, ub),
     oob |-> IF uses_oob(ver) THEN 1 ELSE 0,
     hw |-> IF uses_oob(ver) THEN 0 ELSE 1,
     rv |-> IF tx # EC_SUCCESS THEN tx ELSE EC_SUCCESS]

\* ver is what board_get_version returns and tx what the transaction returns.
peci_Wr_Pkg_Config(index, parameter, data, wlen, ver, tx, ub) ==
    [out |-> WrFrame(index, parameter, data, wlen, ub),
     oob |-> IF uses_oob(ver) THEN 1 ELSE 0,
     hw |-> IF uses_oob(ver) THEN 0 ELSE 1,
     rv |-> IF uses_oob(ver) THEN EC_SUCCESS
            ELSE IF tx # EC_SUCCESS THEN tx ELSE EC_SUCCESS]

(***************************************************************************)
(* peci_update_PL1, _PL2, _PL4, _PsysPL2, lines 127-204: the four differ   *)
(* in the index, the parameter and the data word they pass on.             *)
(***************************************************************************)
\* The gate asks whether the chipset is not off.
peci_update_PL_gate_any_off(pw, index, parameter, data, ver, tx, ub) ==
    IF chipset_in_state(pw, CHIPSET_STATE_ANY_OFF)
    THEN [out |-> <<>>, oob |-> 0, hw |-> 0, rv |-> EC_ERROR_NOT_POWERED]
    ELSE peci_Wr_Pkg_Config(index, parameter, data,
                            PECI_WR_PKG_CONFIG_WRITE_LENGTH_DWORD, ver, tx, ub)

peci_update_PL(pw, index, parameter, data, ver, tx, ub) ==
    IF ~chipset_in_state(pw, CHIPSET_STATE_ON)
    THEN [out |-> <<>>, oob |-> 0, hw |-> 0, rv |-> EC_ERROR_NOT_POWERED]
    ELSE LET w == peci_Wr_Pkg_Config(index, parameter, data,
                      PECI_WR_PKG_CONFIG_WRITE_LENGTH_DWORD, ver, tx, ub)
         IN [w EXCEPT !.rv = IF w.rv # EC_SUCCESS THEN w.rv ELSE EC_SUCCESS]

PLCalls == {"peci_update_PL1", "peci_update_PL2", "peci_update_PL4",
            "peci_update_PsysPL2"}

\* Inputs of the write calls.  A data word stays below 2^31.
Indexes == {26, 255}
Parameters == {0, 4660}
DataWords == {0, 287454020, 2147483647}
WriteLengths == 4..PECI_WR_PKG_CONFIG_WRITE_LENGTH_DWORD
BoardVersions == {BOARD_VERSION_7 - 1, BOARD_VERSION_7, BOARD_VERSION_7 + 1}

(***************************************************************************)
(* Environment: the clock advances, the chipset changes power state.       *)
(***************************************************************************)
Tick ==
    /\ now < MaxTime
    /\ now' = now + 1
    /\ UNCHANGED <<power, thrVars, loopVars, nOob, nRetry, nHw, lastCall, rv,
                   callPower, thr, wrVars>>

\* The caller sleeps through a whole throttle window.
Sleep ==
    /\ now + 7 * SECOND <= MaxTime
    /\ now' = now + 7 * SECOND
    /\ UNCHANGED <<power, thrVars, loopVars, nOob, nRetry, nHw, lastCall, rv,
                   callPower, thr, wrVars>>

PowerChange ==
    /\ \E p \in ChipsetStates \ {power} : power' = p
    /\ UNCHANGED <<now, thrVars, loopVars, nOob, nRetry, nHw, lastCall, rv,
                   callPower, thr, wrVars>>

(***************************************************************************)
(* A direct call of stop_read_peci_temp.                                   *)
(***************************************************************************)
StopReadCall ==
    /\ pc = "idle"
    /\ LET r == stop_read_peci_temp(power, now, t, read_count) IN
        /\ t' = r.t
        /\ read_count' = r.read_count
        /\ rv' = r.rv
        /\ thr' = r.rv
        /\ run' = NextRun(power, r.rv, run)
        /\ accepted' = NextAccepted(power, r.rv, now, accepted)
    /\ runBefore' = run
    /\ lastCall' = "stop_read_peci_temp"
    /\ callPower' = power
    /\ nOob' = 0 /\ nRetry' = 0 /\ nHw' = 0
    /\ args' = NoArgs
    /\ UNCHANGED <<envVars, loopVars, out>>

(***************************************************************************)
(* peci_over_espi_temp_sensor_get_val, lines 238-258: the throttle is      *)
(* consulted on entry; each pass of the loop is a step of its own, since   *)
(* a transaction blocks while the clock and the chipset go on.             *)
(***************************************************************************)
\* The early return of line 245 is missing.
get_val_never_returns_early(thr_rv) == TRUE

\* The loop runs to k < 3.
get_val_loop_three(attempt_rv, k) == attempt_rv = EC_SUCCESS \/ ~(k + 1 < 3)

\* Lines 242-245: whether the call goes on to the loop after the throttle
\* answered thr_rv.
get_val_enters_loop(thr_rv) == ~(thr_rv # EC_SUCCESS)

\* Lines 251-255: whether the loop ends after pass k returned attempt_rv
\* (the break, or k++ making k < 2 false).
get_val_loop_ends(attempt_rv, k) == attempt_rv = EC_SUCCESS \/ ~(k + 1 < 2)

GetValCall ==
    /\ pc = "idle"
    /\ LET r == stop_read_peci_temp(power, now, t, read_count) IN
        /\ t' = r.t
        /\ read_count' = r.read_count
        /\ run' = NextRun(power, r.rv, run)
        /\ accepted' = NextAccepted(power, r.rv, now, accepted)
        /\ thr' = r.rv
        /\ IF get_val_enters_loop(r.rv)
           THEN /\ pc' = "loop"
                /\ UNCHANGED <<rv, lastCall>>
           ELSE /\ rv' = r.rv
                /\ lastCall' = "peci_over_espi_temp_sensor_get_val"
                /\ pc' = "idle"
    /\ runBefore' = run
    /\ callPower' = power
    /\ i' = 0
    /\ rvs' = <<>>
    /\ nOob' = 0 /\ nRetry' = 0 /\ nHw' = 0
    /\ args' = NoArgs
    /\ temp' = "unset"
    /\ UNCHANGED <<envVars, out>>

\* The loop body asks the throttle again before each attempt.
get_val_loop_body_asks_throttle(pw, tnow, t0, rc0, tx, raw, temp0) ==
    LET r == stop_read_peci_temp(pw, tnow, t0, rc0)
        a == peci_over_espi_get_cpu_temp(tx, raw, temp0)
    IN IF r.rv # EC_SUCCESS
       THEN [t |-> r.t, read_count |-> r.read_count, attempted |-> FALSE,
             rv |-> r.rv, cpu_temp |-> temp0, retry |-> FALSE]
       ELSE [t |-> r.t, read_count |-> r.read_count, attempted |-> TRUE,
             rv |-> a.rv, cpu_temp |-> a.cpu_temp, retry |-> a.retry]

\* Lines 252-254: one pass of the loop, entered with power state pw at time
\* tnow and the statics t0, rc0: it makes one attempt and nothing else.
get_val_loop_body(pw, tnow, t0, rc0, tx, raw, temp0) ==
    LET a == peci_over_espi_get_cpu_temp(tx, raw, temp0)
    IN [t |-> t0, read_count |-> rc0, attempted |-> TRUE,
        rv |-> a.rv, cpu_temp |-> a.cpu_temp, retry |-> a.retry]

GetValAttempt ==
    /\ pc = "loop"
    /\ \E tx \in TxResults, raw \in RawSamples :
        LET b == get_val_loop_body(power, now, t, read_count, tx, raw, temp) IN
        /\ t' = b.t
        /\ read_count' = b.read_count
        /\ nOob' = nOob + (IF b.attempted THEN 1 ELSE 0)
        /\ nRetry' = nRetry + (IF b.retry THEN 1 ELSE 0)
        /\ temp' = b.cpu_temp
        /\ rvs' = Append(rvs, b.rv)
        /\ i' = IF b.rv = EC_SUCCESS THEN i ELSE i + 1
        /\ IF get_val_loop_ends(b.rv, i)
           THEN /\ pc' = "idle"
                /\ rv' = b.rv
                /\ lastCall' = "peci_over_espi_temp_sensor_get_val"
           ELSE UNCHANGED <<pc, rv, lastCall>>
    /\ UNCHANGED <<envVars, run, runBefore, accepted, nHw, callPower, thr,
                   wrVars>>

(***************************************************************************)
(* One Get-Temperature attempt on its own, over every raw reading.         *)
(***************************************************************************)
CpuTempCall ==
    /\ pc = "idle"
    /\ \E tx \in TxResults :
       \E raw \in (IF tx = EC_SUCCESS THEN 0..65535 ELSE RawSamples) :
        LET a == peci_over_espi_get_cpu_temp(tx, raw, temp) IN
        /\ args' = [op |-> "peci_over_espi_get_cpu_temp", tx |-> tx, raw |-> raw]
        /\ temp' = a.cpu_temp
        /\ rv' = a.rv
        /\ rvs' = <<a.rv>>
        /\ nRetry' = IF a.retry THEN 1 ELSE 0
    /\ nOob' = 1
    /\ nHw' = 0
    /\ lastCall' = "peci_over_espi_get_cpu_temp"
    /\ pc' = "done"
    /\ UNCHANGED <<envVars, thrVars, i, callPower, thr, out>>

(***************************************************************************)
(* One call of peci_Wr_Pkg_Config, and one of a power-limit setter.        *)
(***************************************************************************)
WrPkgConfigCall ==
    /\ pc = "idle"
    /\ \E index \in Indexes, parameter \in Parameters, data \in DataWords,
          wlen \in WriteLengths, ver \in BoardVersions, tx \in TxResults,
          ub \in ShiftUB :
        LET w == peci_Wr_Pkg_Config(index, parameter, data, wlen, ver, tx, ub) IN
        /\ args' = [op |-> "peci_Wr_Pkg_Config", index |-> index,
                    parameter |-> parameter, data |-> data, wlen |-> wlen,
                    ver |-> ver, tx |-> tx]
        /\ out' = w.out
        /\ nOob' = w.oob
        /\ nHw' = w.hw
        /\ rv' = w.rv
    /\ nRetry' = 0
    /\ lastCall' = "peci_Wr_Pkg_Config"
    /\ callPower' = power
    /\ pc' = "done"
    /\ UNCHANGED <<envVars, thrVars, i, temp, rvs, thr>>

UpdatePLCall ==
    /\ pc = "idle"
    /\ \E call \in PLCalls, index \in Indexes, parameter \in Parameters,
          data \in DataWords, ver \in BoardVersions, tx \in TxResults,
          ub \in ShiftUB :
        LET w == peci_update_PL(power, index, parameter, data, ver, tx, ub) IN
        /\ args' = [op |-> call, index |-> index, parameter |-> parameter,
                    data |-> data,
                    wlen |-> PECI_WR_PKG_CONFIG_WRITE_LENGTH_DWORD,
                    ver |-> ver, tx |-> tx]
        /\ lastCall' = call
        /\ out' = w.out
        /\ nOob' = w.oob
        /\ nHw' = w.hw
        /\ rv' = w.rv
    /\ nRetry' = 0
    /\ callPower' = power
    /\ pc' = "done"
    /\ UNCHANGED <<envVars, thrVars, i, temp, rvs, thr>>

(***************************************************************************)
(* The throttle and the temperature-read entry point.                      *)
(***************************************************************************)
Init ==
    /\ now = 0
    /\ power \in ChipsetStates
    /\ t = 0
    /\ read_count = 0
    /\ pc = "idle"
    /\ i = 0
    /\ temp = "unset"
    /\ rvs = <<>>
    /\ nOob = 0 /\ nRetry = 0 /\ nHw = 0
    /\ lastCall = "none"
    /\ rv = "none"
    /\ callPower = "none"
    /\ thr = "none"
    /\ run = 0
    /\ runBefore = 0
    /\ accepted = <<>>
    /\ args = NoArgs
    /\ out = <<>>

Next ==
    \/ Sleep
    \/ PowerChange
    \/ StopReadCall
    \/ GetValCall
    \/ GetValAttempt

Spec == Init /\ [][Next]_vars

(***************************************************************************)
(* The throttle alone, on a clock that advances tick by tick.              *)
(***************************************************************************)
NextThrottle ==
    \/ Tick
    \/ PowerChange
    \/ StopReadCall

SpecThrottle == Init /\ [][NextThrottle]_vars


(***************************************************************************)
(* The Get-Temperature conversion alone.                                   *)
(***************************************************************************)
InitConv == Init /\ power = "STANDBY"

NextConv ==
    \/ CpuTempCall

SpecConv == InitConv /\ [][NextConv]_vars

(***************************************************************************)
(* The writes: peci_Wr_Pkg_Config and the power-limit setters.             *)
(***************************************************************************)
NextWr ==
    \/ PowerChange
    \/ WrPkgConfigCall
    \/ UpdatePLCall

SpecWr == Init /\ [][NextWr]_vars

(***************************************************************************)
(* The throttle while the chipset stays in Standby and the clock runs on   *)
(* without bound.  get_time() is unbounded; the throttle only compares     *)
(* tnow - t with 7 * SECOND, so once the clock reading has reached MaxTime *)
(* a further tick moves the origin instead: the stored times go down by    *)
(* one, and a time that is already MaxTime or more in the past stays so.   *)
(***************************************************************************)
Earlier(x) == IF x > 0 THEN x - 1 ELSE 0

TickLive ==
    /\ IF now < MaxTime
       THEN /\ now' = now + 1
            /\ UNCHANGED <<t, accepted>>
       ELSE /\ now' = now
            /\ t' = Earlier(t)
            /\ accepted' = [k \in DOMAIN accepted |-> Earlier(accepted[k])]
    /\ UNCHANGED <<power, read_count, run, runBefore, loopVars, nOob, nRetry,
                   nHw, lastCall, rv, callPower, thr, wrVars>>

InitLive == Init /\ power = "STANDBY"

NextLive ==
    \/ TickLive
    \/ StopReadCall

\* The clock keeps advancing and the caller keeps polling.
SpecLive ==
    InitLive /\ [][NextLive]_vars /\ WF_vars(TickLive) /\ WF_vars(StopReadCall)

(***************************************************************************)
(* Properties of the throttle.                                             *)
(***************************************************************************)
\* A step in which the throttle is asked.
ThrottleCall == StopReadCall \/ GetValCall

InStandby == chipset_in_state(power, CHIPSET_STATE_STANDBY)
InAnyOff == chipset_in_state(power, CHIPSET_STATE_ANY_OFF)
WindowElapsed == U64Sub(now, t) >= 7 * SECOND

\* C1: after three Standby calls accepted in a row (no call in between in the
\* On state, none rejected), the next Standby call is rejected with
\* EC_ERROR_NOT_POWERED and re-arms the window: read_count becomes 0 and t the
\* current time.
C1_FourthStandbyCallRejected ==
    [][(ThrottleCall /\ InStandby /\ run = 3)
        => (thr' = EC_ERROR_NOT_POWERED /\ read_count' = 0 /\ t' = now)]_vars

C1_Witness ==
    /\ lastCall = "stop_read_peci_temp"
    /\ callPower = "STANDBY"
    /\ runBefore = 3
    /\ rv = EC_ERROR_NOT_POWERED
    /\ read_count = 0
    /\ t = now
    /\ now >= 7 * SECOND

\* C2, as claimed: a Standby call made when at least 7 seconds have elapsed
\* since the stored window start resets the counter and is accepted, whatever
\* the stored counter.
C2_Original ==
    [][(ThrottleCall /\ InStandby /\ WindowElapsed)
        => (thr' = EC_SUCCESS /\ read_count' = 0)]_vars

\* C2, amended: a Standby call made when at least 7 seconds have elapsed since
\* the stored window start is accepted exactly when read_count is below 3, and
\* then adds one to read_count and leaves t alone; with read_count at 3 it is
\* rejected with EC_ERROR_NOT_POWERED, and read_count becomes 0 and t the
\* current time.
C2_ElapsedWindowAcceptsUpToThree ==
    [][(ThrottleCall /\ InStandby /\ WindowElapsed)
        => IF read_count < 3
           THEN thr' = EC_SUCCESS /\ read_count' = read_count + 1 /\ t' = t
           ELSE /\ thr' = EC_ERROR_NOT_POWERED
                /\ read_count' = 0
                /\ t' = now]_vars

C2_Witness ==
    /\ lastCall = "stop_read_peci_temp"
    /\ callPower = "STANDBY"
    /\ rv = EC_SUCCESS
    /\ read_count = 3
    /\ U64Sub(now, t) = 7 * SECOND
    /\ t > 0

\* C3: a throttle call made while the power state is neither an off state nor
\* Standby returns EC_SUCCESS and sets read_count to 0 and t to the current
\* time, whatever t and read_count were.
C3_ActiveAcceptsAndResets ==
    [][(ThrottleCall /\ ~InAnyOff /\ ~InStandby)
        => (thr' = EC_SUCCESS /\ read_count' = 0 /\ t' = now)]_vars

C3_Witness ==
    /\ lastCall = "stop_read_peci_temp"
    /\ callPower = "ON"
    /\ runBefore > 0
    /\ rv = EC_SUCCESS
    /\ read_count = 0
    /\ t = now
    /\ now > 7 * SECOND

\* C4: a throttle call made while the power state is an off state is rejected
\* with EC_ERROR_NOT_POWERED, whatever t, read_count and the current time.
C4_OffRejected ==
    [][(ThrottleCall /\ InAnyOff) => thr' = EC_ERROR_NOT_POWERED]_vars

C4_Witness ==
    /\ lastCall = "stop_read_peci_temp"
    /\ callPower = "SOFT_OFF"
    /\ rv = EC_ERROR_NOT_POWERED
    /\ WindowElapsed
    /\ read_count \in 1..2

(***************************************************************************)
(* Properties of the temperature-read entry point.                         *)
(***************************************************************************)
\* peci_over_espi_temp_sensor_get_val has returned and nothing was called since.
GetValReturned == lastCall = "peci_over_espi_temp_sensor_get_val" /\ pc = "idle"

Failed(r) == r # EC_SUCCESS

\* C5: when the throttle rejects a call of peci_over_espi_temp_sensor_get_val,
\* the call returns the throttle's error and makes no bus transaction and no
\* retry-receive.
C5_RejectedCallIssuesNothing ==
    (GetValReturned /\ Failed(thr))
        => (rv = thr /\ nOob = 0 /\ nRetry = 0 /\ nHw = 0 /\ rvs = <<>>)

C5_Witness ==
    /\ GetValReturned
    /\ thr = EC_ERROR_NOT_POWERED
    /\ rv = EC_ERROR_NOT_POWERED
    /\ callPower = "STANDBY"
    /\ nOob = 0

\* C6: when the throttle accepts, the call makes at most 2 Get-Temperature
\* attempts, the second exactly when the first failed; it returns success as
\* soon as an attempt succeeds, and the second attempt's code when both fail.
C6_RetryOnce ==
    /\ pc = "loop" => (Len(rvs) <= 1 /\ \A k \in 1..Len(rvs) : Failed(rvs[k]))
    /\ (GetValReturned /\ thr = EC_SUCCESS) =>
        /\ Len(rvs) \in 1..2
        /\ nOob = Len(rvs)
        /\ Len(rvs) = 2 <=> Failed(rvs[1])
        /\ rv = rvs[Len(rvs)]

C6_Witness ==
    /\ GetValReturned
    /\ thr = EC_SUCCESS
    /\ Len(rvs) = 2
    /\ rvs[1] = EC_ERROR_TIMEOUT
    /\ rvs[2] = EC_ERROR_INVAL
    /\ rv = EC_ERROR_INVAL

(***************************************************************************)
(* Properties of the Get-Temperature conversion.                           *)
(***************************************************************************)
\* ((r ^ 0xFFFF) + 1) >> 6 in plain arithmetic: complementing a 16-bit r
\* gives 65535 - r, and >> 6 divides by 64, dropping the remainder.
OffsetOf(r) == (65535 - r + 1) \div 64

\* C7: for every 16-bit raw reading r of a successful transaction, with
\* o = ((r ^ 0xFFFF) + 1) >> 6, the attempt returns Tjmax - o + 273 when
\* o < Tjmax and fails with EC_ERROR_INVAL when o >= Tjmax.
C7_ConversionExact ==
    (lastCall = "peci_over_espi_get_cpu_temp" /\ args.tx = EC_SUCCESS)
        => IF OffsetOf(args.raw) < CONFIG_PECI_TJMAX
           THEN /\ rv = EC_SUCCESS
                /\ temp = CONFIG_PECI_TJMAX - OffsetOf(args.raw) + 273
           ELSE rv = EC_ERROR_INVAL

C7_Witness ==
    /\ lastCall = "peci_over_espi_get_cpu_temp"
    /\ args.tx = EC_SUCCESS
    /\ args.raw = 65472
    /\ rv = EC_SUCCESS
    /\ temp = CONFIG_PECI_TJMAX - 1 + 273

(***************************************************************************)
(* Properties of the writes.                                               *)
(***************************************************************************)
\* C8: each power-limit setter called while the power state is not On
\* (Standby and the off states included) returns EC_ERROR_NOT_POWERED and
\* makes no transaction on either transport.
C8_SettersGatedOnPower ==
    (lastCall \in PLCalls /\ callPower # "ON")
        => (rv = EC_ERROR_NOT_POWERED /\ nHw = 0 /\ nOob = 0)

C8_Witness ==
    /\ lastCall = "peci_update_PL4"
    /\ callPower = "STANDBY"
    /\ rv = EC_ERROR_NOT_POWERED
    /\ nHw = 0
    /\ nOob = 0

\* peci_Wr_Pkg_Config was called, directly or by a setter that passed its gate.
WrPkgConfigCalled ==
    \/ lastCall = "peci_Wr_Pkg_Config"
    \/ lastCall \in PLCalls /\ callPower = "ON"

\* C9: every call of peci_Wr_Pkg_Config makes exactly one transaction, on the
\* out-of-band transport when the board revision read in the call is at
\* least BOARD_VERSION_7 and on the hardware-pin transport otherwise,
\* whatever the other inputs; on the hardware-pin path a failure code of the
\* transaction is returned unchanged.
C9_TransportRouting ==
    WrPkgConfigCalled =>
        /\ nOob + nHw = 1
        /\ nOob = 1 <=> args.ver >= BOARD_VERSION_7
        /\ nHw = 1 => rv = args.tx

C9_Witness ==
    /\ lastCall = "peci_Wr_Pkg_Config"
    /\ args.ver = BOARD_VERSION_7 - 1
    /\ args.tx = EC_ERROR_TIMEOUT
    /\ rv = EC_ERROR_TIMEOUT
    /\ nHw = 1
    /\ nOob = 0

\* Bits 8k..8k+7 of a 32-bit word; it has none from bit 32 on.
ByteOfWord(data, k) == IF k >= 4 THEN 0 ELSE (data \div Pow2(8 * k)) % 256

\* C10: for every index, parameter, data word and outbound length wlen within
\* the buffer size, the outbound frame is [0x00, index, parameter low byte,
\* parameter high byte], then wlen - 5 payload bytes from offset 4, the byte
\* at offset 4 + k being bits 8k..8k+7 of data, and every other byte 0.
C10_FrameSerialization ==
    (WrPkgConfigCalled /\ args.wlen >= 5) =>
        out = [k \in 0..(PECI_WR_PKG_CONFIG_WRITE_LENGTH_DWORD - 1) |->
                 IF k = 0 THEN 0
                 ELSE IF k = 1 THEN args.index
                 ELSE IF k = 2 THEN args.parameter % 256
                 ELSE IF k = 3 THEN args.parameter \div 256
                 ELSE IF k - 4 < args.wlen - 5 THEN ByteOfWord(args.data, k - 4)
                 ELSE 0]

(***************************************************************************)
(* Further properties of one Get-Temperature attempt.                      *)
(***************************************************************************)
\* C11: in one Get-Temperature attempt espi_oob_retry_receive_date is called
\* once when the transaction fails with a timeout and never otherwise; after
\* the salvage the attempt still fails with EC_ERROR_TIMEOUT, and any other
\* failure of the transaction is returned as it is.
C11_TimeoutSalvage ==
    lastCall = "peci_over_espi_get_cpu_temp" =>
        /\ nRetry = IF args.tx = EC_ERROR_TIMEOUT THEN 1 ELSE 0
        /\ Failed(args.tx) => (rv = args.tx /\ temp = "unset")

C11_Witness ==
    /\ lastCall = "peci_over_espi_get_cpu_temp"
    /\ args.tx = EC_ERROR_TIMEOUT
    /\ nOob = 1
    /\ nRetry = 1
    /\ rv = EC_ERROR_TIMEOUT

(***************************************************************************)
(* Further properties of the writes.                                       *)
(***************************************************************************)
\* C12: on a board revision of at least BOARD_VERSION_7 peci_Wr_Pkg_Config
\* returns EC_SUCCESS whatever the out-of-band transaction returns, so a
\* power-limit setter called in the On state on such a board returns success
\* even when its transaction fails or times out.
C12_OobFailureNotSurfaced ==
    (WrPkgConfigCalled /\ args.ver >= BOARD_VERSION_7)
        => (rv = EC_SUCCESS /\ nOob = 1)

C12_Witness ==
    /\ lastCall = "peci_update_PL1"
    /\ callPower = "ON"
    /\ args.ver = BOARD_VERSION_7
    /\ args.tx = EC_ERROR_TIMEOUT
    /\ nOob = 1
    /\ rv = EC_SUCCESS

(***************************************************************************)
(* Further properties of the throttle.                                     *)
(***************************************************************************)
\* C13, as claimed: in Standby every throttle call made when the time elapsed
\* since the stored window start is not greater than 7 seconds is rejected
\* with EC_ERROR_NOT_POWERED.
C13_Original ==
    [][(ThrottleCall /\ InStandby /\ U64Sub(now, t) <= 7 * SECOND)
        => thr' = EC_ERROR_NOT_POWERED]_vars

\* C13, amended: in Standby every throttle call made when less than 7 seconds
\* have elapsed since the stored window start is rejected with
\* EC_ERROR_NOT_POWERED; at exactly 7 seconds the window test lets it through.
C13_RejectedInsideWindow ==
    [][(ThrottleCall /\ InStandby /\ U64Sub(now, t) < 7 * SECOND)
        => thr' = EC_ERROR_NOT_POWERED]_vars

C13_Witness ==
    /\ lastCall = "stop_read_peci_temp"
    /\ callPower = "STANDBY"
    /\ rv = EC_ERROR_NOT_POWERED
    /\ t > 0
    /\ U64Sub(now, t) = 7 * SECOND - 1
    /\ read_count = 0

\* C14: a throttle call rejected because the power state is an off state
\* leaves the stored window start t and read_count as they were.
C14_OffLeavesStatics ==
    [][(ThrottleCall /\ InAnyOff) => (t' = t /\ read_count' = read_count)]_vars

C14_Witness ==
    /\ lastCall = "stop_read_peci_temp"
    /\ callPower = "HARD_OFF"
    /\ rv = EC_ERROR_NOT_POWERED
    /\ read_count = 2
    /\ t > 0
    /\ now > t

(***************************************************************************)
(* Further properties of the temperature-read entry point.                 *)
(***************************************************************************)
\* C15: the throttle is asked once per call of
\* peci_over_espi_temp_sensor_get_val, on entry: the entry moves read_count
\* by one throttle step at most (kept, one more, or reset to 0), and every
\* pass of the loop, the retry included, makes its transaction and leaves t
\* and read_count alone, whatever the power state and the time have become.
\* A pass of the loop: the only step that adds a return value to rvs.
LoopPass == pc = "loop" /\ Len(rvs') = Len(rvs) + 1

C15_ThrottleAskedOncePerCall ==
    [][/\ GetValCall => read_count' \in {read_count, read_count + 1, 0}
       /\ LoopPass =>
            (t' = t /\ read_count' = read_count /\ nOob' = nOob + 1)]_vars

C15_Witness ==
    /\ GetValReturned
    /\ callPower = "STANDBY"
    /\ thr = EC_SUCCESS
    /\ power \in CHIPSET_STATE_ANY_OFF
    /\ Len(rvs) = 2
    /\ nOob = 2
    /\ read_count = 1

(***************************************************************************)
(* The rate the throttle allows in Standby.                                *)
(***************************************************************************)
\* C16: with a clock that never goes back, over any calls of the throttle in
\* any mix of power states, four calls accepted in Standby span at least 7
\* seconds from the first to the fourth.  (Four accepted calls in a row span
\* the least, so the last four are the ones to look at.)
C16_FourAcceptsSpanWindow ==
    Len(accepted) = 4 => accepted[4] - accepted[1] >= 7 * SECOND

C16_Witness ==
    /\ Len(accepted) = 4
    /\ accepted[3] = accepted[1]
    /\ accepted[4] - accepted[1] = 7 * SECOND
    /\ callPower = "STANDBY"
    /\ rv = EC_SUCCESS

(***************************************************************************)
(* The width of the Get-Temperature offset.                                *)
(***************************************************************************)
\* The two's-complement negation of a 16-bit v, kept to 16 bits.
Negate16(v) == (65536 - v) % 65536

\* C17: the relative offset is the 16-bit negation of the raw reading v,
\* taken modulo 2^16, shifted right by 6, for every raw reading, v = 0
\* included: a raw reading of 0 gives offset 0 and the result Tjmax + 273.
C17_OffsetModulo16 ==
    (lastCall = "peci_over_espi_get_cpu_temp" /\ args.tx = EC_SUCCESS)
        => LET o == Negate16(args.raw) \div 64
           IN  IF o < CONFIG_PECI_TJMAX
               THEN /\ rv = EC_SUCCESS
                    /\ temp = CONFIG_PECI_TJMAX - o + 273
               ELSE rv = EC_ERROR_INVAL

(***************************************************************************)
(* The throttle's statics between calls.                                   *)
(***************************************************************************)
\* C18: from t = 0 and read_count = 0, with a clock that never goes back,
\* after any calls of the throttle in any power states read_count is between
\* 0 and 3 on return and the window start t is not after the current time,
\* so the unsigned subtraction tnow - t does not wrap.
C18_StaticsInRange ==
    /\ read_count \in 0..3
    /\ t <= now
    /\ U64Sub(now, t) = now - t

C18_Witness ==
    /\ lastCall = "stop_read_peci_temp"
    /\ thr = EC_ERROR_NOT_POWERED
    /\ callPower = "STANDBY"
    /\ runBefore = 3
    /\ read_count = 0
    /\ t = now
    /\ t > 0

(***************************************************************************)
(* The throttle does not starve a caller that keeps polling in Standby.    *)
(***************************************************************************)
\* C19: if the power state stays Standby, the clock keeps advancing and
\* stop_read_peci_temp keeps being called, calls are accepted again and
\* again; a rejection made because fewer than 7 seconds have elapsed leaves
\* the window start where it was.
C19_AcceptedInfinitelyOften ==
    /\ []<><<StopReadCall /\ thr' = EC_SUCCESS>>_vars
    /\ [][(StopReadCall /\ InStandby /\ ~WindowElapsed) => t' = t]_vars

C19_Witness ==
    /\ lastCall = "stop_read_peci_temp"
    /\ callPower = "STANDBY"
    /\ thr = EC_SUCCESS
    /\ Len(accepted) = 4
    /\ read_count = 1
    /\ t > 0
    /\ now - t >= 7 * SECOND

=============================================================================
